---- MODULE Spec2Model ----
(***************************************************************************)
(* A model of DynamicArray<T> (src/DynamicArray.hpp): a contiguous,        *)
(* resizable array over raw malloc/realloc/free storage.                   *)
(*                                                                         *)
(* The state is the set of container objects (their fields n, cap, mem),   *)
(* the allocator's heap (which addresses are allocated, how many slots     *)
(* each block has, and what every slot holds), and the exception the last  *)
(* call threw, if any.  Every public member function is one action.        *)
(* The element type T is either trivially copyable (the memmove/realloc    *)
(* path) or not (the move-construct/destroy path); which one is fixed in   *)
(* the initial state, as the template argument is fixed at compile time.   *)
(*                                                                         *)
(* An access outside every allocated block, and a free or realloc of an    *)
(* address that is not allocated, are undefined behaviour.  The step that  *)
(* commits one is modelled with the assignments the code makes to its own  *)
(* fields, a read that may see any value and a store that is lost; the     *)
(* flags ub and freeErr record it, and no step is taken after it, since    *)
(* nothing can be said about the program from there on.                    *)
(***************************************************************************)
EXTENDS Integers, Sequences, FiniteSets, TLC

VARIABLES
  trivial,   \* std::is_trivially_copyable<T>::value
  obj,       \* obj[c]: the fields of container c, and whether it is alive
  heap,      \* heap[a]: the allocator's block at address a
  ub,        \* a slot outside every allocated block has been read or written
  freeErr,   \* std::free / std::realloc was handed an address that is not allocated
  track,     \* bookkeeping of the runs that follow one scenario (no program state)
  fails,     \* how many times the allocator has failed
  last       \* how the last call ended

vars == <<trivial, obj, heap, ub, freeErr, track, fails, last>>

\* ---------------------------------------------------------------- bounds
MaxLen  == 2      \* Insert/Append is not called on a container of this length
MaxAddr == 3      \* the allocator hands out addresses 1..MaxAddr
MaxFails == 1     \* the allocator fails at most this many times in a run
MaxSolo == 5      \* the same as MaxLen, for a container that is alone

\* ---------------------------------------------------------------- constants
InitCap == 4      \* DynamicArray() : cap{4}
NULL    == 0      \* nullptr
Uninit  == 0      \* a slot that holds no live object
Conts   == {"A", "B"}
Vals    == {1, 2}                 \* element values
Addrs   == 1..MaxAddr
Garbage == Vals \cup {Uninit}     \* what a read through an invalid pointer may see
Idx     == 0..(MaxLen + 1)        \* indices the callers pass
IdxSolo == 0..(MaxSolo + 1)

\* a block the allocator does not (or no longer) consider allocated
FreedBlock == [alloc |-> FALSE, slots |-> <<>>]
\* no bookkeeping: vals[c] are the values appended to c, copied says that the
\* copy the run follows has been made, selfed that a container has been
\* assigned to itself
NoTrack    == [vals |-> [c \in Conts |-> <<>>], copied |-> FALSE, selfed |-> FALSE]
\* a container that does not exist (never constructed, or destroyed)
NoObj      == [live |-> FALSE, n |-> 0, cap |-> 0, mem |-> NULL]
\* the fields a move leaves in its source
MovedFrom  == [live |-> TRUE, n |-> 0, cap |-> 0, mem |-> NULL]
\* how a call ends: "ok" (it returns), "oor" (it throws std::out_of_range) or
\* "nomem" (alloc or makeRoomAt_trivial throws std::runtime_error)
Results == {"ok", "oor", "nomem"}

\* ---------------------------------------------------------------- raw memory
\* A memory m is the allocator's blocks m.blk with the two flags m.ub, m.ferr.
Memory(h) == [blk |-> h, ub |-> FALSE, ferr |-> FALSE]

\* is a the address of a block the allocator considers allocated
Allocated(h, a) == a # NULL /\ h[a].alloc

\* is &a[i] inside an allocated block
Valid(h, a, i) == Allocated(h, a) /\ i >= 0 /\ i < Len(h[a].slots)

\* operator[] read: mem[i]; through an invalid pointer it sees g
Rd(m, a, i, g) == IF Valid(m.blk, a, i) THEN m.blk[a].slots[i + 1] ELSE g

\* a store of v to mem[i] (placement new, or the bytes memmove writes)
Wr(m, a, i, v) ==
  IF Valid(m.blk, a, i) THEN [m EXCEPT !.blk[a].slots[i + 1] = v]
  ELSE [m EXCEPT !.ub = TRUE]

\* new (&dst[di]) T( src[si] ): reads one slot and constructs another from it
Construct(m, dst, di, src, si, g) ==
  LET m1 == Wr(m, dst, di, Rd(m, src, si, g))
  IN  IF Valid(m.blk, src, si) THEN m1 ELSE [m1 EXCEPT !.ub = TRUE]

\* mem[i].~T(): ends the element's lifetime; for a trivial T it touches no
\* memory, so it cannot fault
Destroy(m, a, i) ==
  IF trivial /\ ~Valid(m.blk, a, i) THEN m ELSE Wr(m, a, i, Uninit)

\* the addresses the containers' mem fields hold
Held == {obj[c].mem : c \in Conts} \ {NULL}

\* std::malloc(k): the addresses it may return; NULL is failure (a full model
\* heap has no address left, and the call is then not made).  Any address
\* that is not allocated may come back, one a container still holds (a stale
\* pointer) included; the addresses nothing refers to are interchangeable, and
\* the lowest stands for them all
MallocChoices(h) ==
  LET free  == {a \in Addrs : ~h[a].alloc}
      fresh == free \ Held
  IN  (IF fails < MaxFails THEN {NULL} ELSE {})
        \cup (free \cap Held) \cup {a \in fresh : \A b \in fresh : a <= b}

\* std::malloc(k) returned a # NULL
Malloc(m, a, k) ==
  [m EXCEPT !.blk[a] = [alloc |-> TRUE, slots |-> [j \in 1..k |-> Uninit]]]

\* std::free(a)
Free(m, a) ==
  IF a = NULL THEN m
  ELSE IF m.blk[a].alloc THEN [m EXCEPT !.blk[a] = FreedBlock]
  ELSE [m EXCEPT !.ferr = TRUE]

\* ---------------------------------------------------------------- private members
\* while(n > 0) operator[](--n).~T();
RECURSIVE DestroyDown(_, _, _)
DestroyDown(m, a, n) ==
  IF n = 0 THEN m ELSE DestroyDown(Destroy(m, a, n - 1), a, n - 1)

\* destructAndFree(mem, n): the loop destroys through the member this->mem
\* (operator[]), std::free gets the parameter
destructAndFree(m, thisMem, mem, n) == Free(DestroyDown(m, thisMem, n), mem)

\* for(i = from; i < n; ++i) new (&mem[i]) T( other[i] );
RECURSIVE CopyElems(_, _, _, _, _, _)
CopyElems(m, dst, src, from, n, g) ==
  IF from >= n THEN m
  ELSE CopyElems(Construct(m, dst, from, src, from, g), dst, src, from + 1, n, g)

\* a newCap() that does not grow
newCap_keeps(cap) == cap

\* a newCap() that grows by one slot
newCap_plusone(cap) == cap + 1

\* newCap(): the value it returns, which it also stores into cap
newCap(cap) == IF cap = 0 THEN 1 ELSE cap * 2

\* for(elemI = from; elemI < to; ++elemI) new (&newMem[elemI+off]) T( std::move(mem[elemI]) );
\* the moved-from elements of the old block stay alive until destructAndFree
RECURSIVE MoveOut(_, _, _, _, _, _, _)
MoveOut(m, newMem, mem, from, to, off, g) ==
  IF from >= to THEN m
  ELSE MoveOut(Construct(m, newMem, from + off, mem, from, g),
               newMem, mem, from + 1, to, off, g)

\* for(elemI = n; elemI-- > i; ) { new (&mem[elemI+1]) T( std::move(mem[elemI]) ); mem[elemI].~T(); }
\* called with elemI = n - 1, runs down to i
RECURSIVE ShiftRight(_, _, _, _, _)
ShiftRight(m, mem, elemI, i, g) ==
  IF elemI < i THEN m
  ELSE ShiftRight(Destroy(Construct(m, mem, elemI + 1, mem, elemI, g), mem, elemI),
                  mem, elemI - 1, i, g)

\* for(elemI = from; elemI < n; ++elemI) { new (&mem[elemI-1]) T( std::move(mem[elemI]) ); mem[elemI].~T(); }
RECURSIVE ShiftLeft(_, _, _, _, _)
ShiftLeft(m, mem, elemI, n, g) ==
  IF elemI >= n THEN m
  ELSE ShiftLeft(Destroy(Construct(m, mem, elemI - 1, mem, elemI, g), mem, elemI),
                 mem, elemI + 1, n, g)

\* the stores of memmove, from the temporary tmp
RECURSIVE StoreAll(_, _, _, _, _)
StoreAll(m, a, dst, tmp, k) ==
  IF k > Len(tmp) THEN m
  ELSE StoreAll(Wr(m, a, dst + k - 1, tmp[k]), a, dst, tmp, k + 1)

\* std::memmove(&a[dst], &a[src], cnt * sizeof(T)): copies as if through a
\* temporary, so overlapping ranges are fine; the source bytes stay
memmove(m, a, dst, src, cnt, g) ==
  LET tmp == [k \in 1..cnt |-> Rd(m, a, src + k - 1, g)]
      m1  == StoreAll(m, a, dst, tmp, 1)
  IN  IF \A k \in 1..cnt : Valid(m.blk, a, src + k - 1) THEN m1
      ELSE [m1 EXCEPT !.ub = TRUE]

\* the element of slot a[i] has left the array without a destructor call (T is
\* trivial): the slot's stale bytes are no element of the array
Vacate(m, a, i) == IF Valid(m.blk, a, i) THEN Wr(m, a, i, Uninit) ELSE m

\* std::realloc(mem, k): the addresses it may return; NULL is failure, mem
\* itself is growth in place
ReallocChoices(h, mem) ==
  MallocChoices(h) \cup (IF Allocated(h, mem) THEN {mem} ELSE {})

\* std::realloc(mem, k) returned r # NULL: the old block's contents, up to the
\* smaller of the two sizes, are at r, and the old block is released
realloc(m, mem, r, k, g) ==
  LET known == Allocated(m.blk, mem)
      old   == IF known THEN m.blk[mem].slots ELSE <<>>
      fresh == [j \in 1..k |-> IF j <= Len(old) THEN old[j]
                               ELSE IF mem = NULL \/ known THEN Uninit ELSE g]
  IN  [Free(m, mem) EXCEPT !.blk[r] = [alloc |-> TRUE, slots |-> fresh]]

\* makeRoomAt_simple_nontrivial(i)
makeRoomAt_simple_nontrivial(m, o, i, g) ==
  IF o.n = 0 THEN m ELSE ShiftRight(m, o.mem, o.n - 1, i, g)

\* makeRoomAt_nontrivial(i); r is what std::malloc returns if it is called
makeRoomAt_nontrivial(m, o, i, g, r) ==
  IF o.n < o.cap
  THEN [o |-> o, m |-> makeRoomAt_simple_nontrivial(m, o, i, g), res |-> "ok"]
  ELSE LET grown == [o EXCEPT !.cap = newCap(o.cap)]   \* newCap() has stored into cap
       IN  IF r = NULL
           THEN [o |-> grown, m |-> m, res |-> "nomem"]   \* alloc throws
           ELSE LET m1 == Malloc(m, r, grown.cap)
                    m2 == MoveOut(m1, r, o.mem, 0, i, 0, g)
                    m3 == MoveOut(m2, r, o.mem, i, o.n, 1, g)
                IN  [o |-> [grown EXCEPT !.mem = r],
                     m |-> destructAndFree(m3, o.mem, o.mem, o.n), res |-> "ok"]

\* makeRoomAt_trivial(i); r is what std::realloc returns if it is called
makeRoomAt_trivial(m, o, i, g, r) ==
  IF o.n = o.cap
  THEN LET grown == [o EXCEPT !.cap = newCap(o.cap), !.mem = r]  \* mem = realloc(...)
       IN  IF r = NULL
           THEN [o |-> grown, m |-> m, res |-> "nomem"]
           ELSE [o |-> grown,
                 m |-> memmove(realloc(m, o.mem, r, grown.cap, g), r, i + 1, i, o.n - i, g),
                 res |-> "ok"]
  ELSE [o |-> o, m |-> memmove(m, o.mem, i + 1, i, o.n - i, g), res |-> "ok"]

\* does Insert(i, ...) on o call the allocator
Grows(o, i) == i <= o.n /\ (IF trivial THEN o.n = o.cap ELSE ~(o.n < o.cap))

\* what the allocator may answer to the call Insert(i, ...) on o makes, if any
GrowChoices(h, o, i) ==
  IF ~Grows(o, i) THEN {NULL}
  ELSE IF trivial THEN ReallocChoices(h, o.mem) ELSE MallocChoices(h)

\* ---------------------------------------------------------------- public members
\* an Insert without its ++n
InsertFn_uncounted(m, o, i, v, g, r) ==
  IF i > o.n
  THEN [o |-> o, m |-> m, res |-> "oor"]
  ELSE LET x == IF trivial THEN makeRoomAt_trivial(m, o, i, g, r)
                ELSE makeRoomAt_nontrivial(m, o, i, g, r)
       IN  IF x.res = "nomem" THEN x
           ELSE [o |-> x.o, m |-> Wr(x.m, x.o.mem, i, v), res |-> "ok"]

\* Insert(i, elem), elem a value outside the container
InsertFn(m, o, i, v, g, r) ==
  IF i > o.n
  THEN [o |-> o, m |-> m, res |-> "oor"]
  ELSE LET x == IF trivial THEN makeRoomAt_trivial(m, o, i, g, r)
                ELSE makeRoomAt_nontrivial(m, o, i, g, r)
       IN  IF x.res = "nomem" THEN x
           ELSE [o |-> [x.o EXCEPT !.n = @ + 1], m |-> Wr(x.m, x.o.mem, i, v),
                 res |-> "ok"]

\* Insert(i, elem), elem a reference to mem[j] of this container, taken
\* before the call: the room is made first, and the value is then read
\* through the reference, which still points to slot j of the buffer the
\* container had; a slot that holds no live object any more has no value to
\* give, and the read of it is undefined
InsertRefFn(m, o, i, j, g, r) ==
  IF i > o.n
  THEN [o |-> o, m |-> m, res |-> "oor"]
  ELSE LET x == IF trivial THEN makeRoomAt_trivial(m, o, i, g, r)
                ELSE makeRoomAt_nontrivial(m, o, i, g, r)
       IN  IF x.res = "nomem" THEN x
           ELSE LET there == Valid(x.m.blk, o.mem, j) /\ x.m.blk[o.mem].slots[j + 1] # Uninit
                    v     == IF there THEN x.m.blk[o.mem].slots[j + 1] ELSE g
                    m1    == IF there THEN x.m ELSE [x.m EXCEPT !.ub = TRUE]
                IN  [o |-> [x.o EXCEPT !.n = @ + 1], m |-> Wr(m1, x.o.mem, i, v),
                     res |-> "ok"]

\* a Delete that gives the freed capacity up
DeleteFn_shrinks(m, o, i, g) ==
  IF i >= o.n
  THEN [o |-> o, m |-> m, res |-> "oor"]
  ELSE [o |-> [o EXCEPT !.n = @ - 1, !.cap = o.n - 1],
        m |-> IF trivial
              THEN Vacate(memmove(m, o.mem, i, i + 1, o.n - i - 1, g), o.mem, o.n - 1)
              ELSE ShiftLeft(Destroy(m, o.mem, i), o.mem, i + 1, o.n, g),
        res |-> "ok"]

\* Delete(i)
DeleteFn(m, o, i, g) ==
  IF i >= o.n
  THEN [o |-> o, m |-> m, res |-> "oor"]
  ELSE [o |-> [o EXCEPT !.n = @ - 1],
        m |-> IF trivial
              THEN Vacate(memmove(m, o.mem, i, i + 1, o.n - i - 1, g), o.mem, o.n - 1)
              ELSE ShiftLeft(Destroy(m, o.mem, i), o.mem, i + 1, o.n, g),
        res |-> "ok"]

\* operator=(const DynamicArray& other), this # &other; r is what std::malloc
\* returns if it is called
CopyAssignFn(m, o, other, g, r) ==
  IF other.n > o.cap
  THEN LET m1 == destructAndFree(m, o.mem, o.mem, o.n)
           o1 == [o EXCEPT !.n = other.n, !.cap = other.cap]
       IN  IF r = NULL
           THEN [o |-> o1, m |-> m1, res |-> "nomem"]   \* mem keeps the freed address
           ELSE [o |-> [o1 EXCEPT !.mem = r],
                 m |-> CopyElems(Malloc(m1, r, o1.cap), r, other.mem, 0, o1.n, g),
                 res |-> "ok"]
  ELSE [o |-> [o EXCEPT !.n = other.n],
        m |-> CopyElems(DestroyDown(m, o.mem, o.n), o.mem, other.mem, 0, other.n, g),
        res |-> "ok"]

\* ---------------------------------------------------------------- the operations
Init ==
  /\ trivial \in BOOLEAN
  /\ obj = [c \in Conts |-> NoObj]
  /\ heap = [a \in Addrs |-> FreedBlock]
  /\ ub = FALSE
  /\ freeErr = FALSE
  /\ track = NoTrack
  /\ fails = 0
  /\ last = "ok"

\* every container's [0, n) lies in a block of its own
Intact ==
  /\ \A c \in Conts : obj[c].live /\ obj[c].n > 0 => Valid(heap, obj[c].mem, obj[c].n - 1)
  /\ \A c, d \in Conts : c # d /\ obj[c].live /\ obj[d].live /\ obj[c].mem # NULL
                          => obj[c].mem # obj[d].mem

\* what the reads of a call may see through invalid pointers; there are no
\* such reads while Intact
Reads == IF Intact THEN {Uninit} ELSE Garbage

\* the program has not run into undefined behaviour
Defined == ~ub /\ ~freeErr

\* the memory a call leaves behind
Leaves(m) ==
  /\ heap' = m.blk
  /\ ub' = m.ub
  /\ freeErr' = m.ferr

\* a call that ended res: alloc (or realloc) has failed in it if it ended "nomem"
Ended(res) ==
  /\ last' = res
  /\ fails' = IF res = "nomem" THEN fails + 1 ELSE fails

\* DynamicArray() : n{0}, cap{4}, mem{alloc(cap)}
DefaultCtor(c) ==
  /\ Defined /\ ~obj[c].live
  /\ \E r \in MallocChoices(heap) :
       IF r = NULL
       THEN /\ Ended("nomem")
            /\ UNCHANGED <<obj, heap>>
       ELSE /\ obj' = [obj EXCEPT ![c] = [live |-> TRUE, n |-> 0, cap |-> InitCap, mem |-> r]]
            /\ heap' = Malloc(Memory(heap), r, InitCap).blk
            /\ Ended("ok")
  /\ UNCHANGED <<trivial, ub, freeErr>>

\* DynamicArray(const DynamicArray& other)
CopyCtor(c, src) ==
  /\ Defined /\ ~obj[c].live /\ obj[src].live
  /\ \E r \in MallocChoices(heap), g \in Reads :
       IF r = NULL
       THEN /\ g = Uninit
            /\ Ended("nomem")
            /\ UNCHANGED <<obj, heap, ub, freeErr>>
       ELSE LET m == CopyElems(Malloc(Memory(heap), r, obj[src].cap), r, obj[src].mem,
                               0, obj[src].n, g)
            IN  /\ m.ub \/ g = Uninit
                /\ obj' = [obj EXCEPT ![c] = [obj[src] EXCEPT !.mem = r]]
                /\ Leaves(m)
                /\ Ended("ok")
  /\ UNCHANGED trivial

\* a move constructor that leaves the fields of other as they are
MoveCtor_shares(c, src) ==
  /\ Defined /\ ~obj[c].live /\ obj[src].live
  /\ obj' = [obj EXCEPT ![c] = obj[src]]
  /\ Ended("ok")
  /\ UNCHANGED <<trivial, heap, ub, freeErr>>

\* DynamicArray(DynamicArray&& other)
MoveCtor(c, src) ==
  /\ Defined /\ ~obj[c].live /\ obj[src].live
  /\ obj' = [obj EXCEPT ![c] = obj[src], ![src] = MovedFrom]
  /\ Ended("ok")
  /\ UNCHANGED <<trivial, heap, ub, freeErr>>

\* operator=(const DynamicArray& other)
CopyAssign(c, src) ==
  /\ Defined /\ obj[c].live /\ obj[src].live
  /\ IF c = src
     THEN /\ Ended("ok")
          /\ UNCHANGED <<obj, heap, ub, freeErr>>
     ELSE \E g \in Reads,
             r \in IF obj[src].n > obj[c].cap
                   THEN MallocChoices(Free(Memory(heap), obj[c].mem).blk) ELSE {NULL} :
            LET x == CopyAssignFn(Memory(heap), obj[c], obj[src], g, r)
            IN  /\ x.m.ub \/ g = Uninit
                /\ obj' = [obj EXCEPT ![c] = x.o]
                /\ Leaves(x.m)
                /\ Ended(x.res)
  /\ UNCHANGED trivial

\* a move assignment without its if(this != &other)
MoveAssign_unguarded(c, src) ==
  /\ Defined /\ obj[c].live /\ obj[src].live
  /\ Leaves(destructAndFree(Memory(heap), obj[c].mem, obj[c].mem, obj[c].n))
  /\ obj' = [obj EXCEPT ![src] = MovedFrom, ![c] = obj[src]]
  /\ Ended("ok")
  /\ UNCHANGED trivial

\* operator=(DynamicArray&& other)
MoveAssign(c, src) ==
  /\ Defined /\ obj[c].live /\ obj[src].live
  /\ IF c = src
     THEN UNCHANGED <<obj, heap, ub, freeErr>>
     ELSE /\ Leaves(destructAndFree(Memory(heap), obj[c].mem, obj[c].mem, obj[c].n))
          /\ obj' = [obj EXCEPT ![c] = obj[src], ![src] = MovedFrom]
  /\ Ended("ok")
  /\ UNCHANGED trivial

\* ~DynamicArray()
Dtor(c) ==
  /\ Defined /\ obj[c].live
  /\ Leaves(destructAndFree(Memory(heap), obj[c].mem, obj[c].mem, obj[c].n))
  /\ obj' = [obj EXCEPT ![c] = NoObj]
  /\ Ended("ok")
  /\ UNCHANGED trivial

\* an At whose bounds check is if(i > n)
At_lax(c, i) ==
  /\ Defined /\ obj[c].live
  /\ IF i > obj[c].n
     THEN Ended("oor") /\ ub' = ub
     ELSE Ended("ok") /\ ub' = ~Valid(heap, obj[c].mem, i)
  /\ UNCHANGED <<trivial, obj, heap, freeErr>>

\* At(i): throws, or hands out a reference to mem[i]
At(c, i) ==
  /\ Defined /\ obj[c].live
  /\ IF i >= obj[c].n
     THEN Ended("oor") /\ ub' = ub
     ELSE Ended("ok") /\ ub' = ~Valid(heap, obj[c].mem, i)
  /\ UNCHANGED <<trivial, obj, heap, freeErr>>

\* Insert(i, elem), on a container that holds fewer than lim elements
Insert(c, i, v, lim) ==
  /\ Defined /\ obj[c].live
  /\ i > obj[c].n \/ obj[c].n < lim
  /\ \E g \in Reads, r \in GrowChoices(heap, obj[c], i) :
       LET x == InsertFn(Memory(heap), obj[c], i, v, g, r)
       IN  /\ x.m.ub \/ g = Uninit
           /\ obj' = [obj EXCEPT ![c] = x.o]
           /\ Leaves(x.m)
           /\ Ended(x.res)
  /\ UNCHANGED trivial

\* Append(elem) { Insert(n, elem); }
AppendOp(c, v, lim) == Insert(c, obj[c].n, v, lim)

\* Insert(i, operator[](j)), on a container that holds fewer than lim elements
InsertRef(c, i, j, lim) ==
  /\ Defined /\ obj[c].live
  /\ j < obj[c].n /\ obj[c].n < lim
  /\ \E g \in Garbage, r \in GrowChoices(heap, obj[c], i) :
       LET x == InsertRefFn(Memory(heap), obj[c], i, j, g, r)
       IN  /\ x.m.ub \/ g = Uninit
           /\ obj' = [obj EXCEPT ![c] = x.o]
           /\ Leaves(x.m)
           /\ Ended(x.res)
  /\ UNCHANGED trivial

\* Append(operator[](j))
AppendRef(c, j, lim) == InsertRef(c, obj[c].n, j, lim)

\* Delete(i)
Delete(c, i) ==
  /\ Defined /\ obj[c].live
  /\ \E g \in Reads :
       LET x == DeleteFn(Memory(heap), obj[c], i, g)
       IN  /\ x.m.ub \/ g = Uninit
           /\ obj' = [obj EXCEPT ![c] = x.o]
           /\ Leaves(x.m)
           /\ Ended(x.res)
  /\ UNCHANGED trivial

\* ---------------------------------------------------------------- what a caller sees
\* the elements of container o, as operator[] reads them in heap h; a slot
\* outside every allocated block has no element to show
Elems(h, o) == [k \in 1..o.n |-> Rd(Memory(h), o.mem, k - 1, Uninit)]

\* container o holds exactly the elements s, each a live object in its block
Holds(h, o, s) ==
  /\ o.n = Len(s)
  /\ \A k \in 1..Len(s) : /\ Valid(h, o.mem, k - 1)
                          /\ h[o.mem].slots[k] # Uninit
                          /\ h[o.mem].slots[k] = s[k]

\* the sequence s with v put in front of its element of index i (from 0)
InsertAt(s, i, v) ==
  [k \in 1..(Len(s) + 1) |-> IF k <= i THEN s[k] ELSE IF k = i + 1 THEN v ELSE s[k - 1]]

\* the sequence s without its element of index i (from 0)
RemoveAt(s, i) ==
  [k \in 1..(Len(s) - 1) |-> IF k <= i THEN s[k] ELSE s[k + 1]]

\* the fields and the elements of o are in h1 what they are in h0
SameContainer(h0, o0, h1, o1) ==
  /\ o1.n = o0.n /\ o1.cap = o0.cap
  /\ Elems(h1, o1) = Elems(h0, o0)

\* container c has no buffer, or its buffer is an allocated block of exactly
\* cap slots whose first n slots hold live elements and whose other slots
\* hold none
WellFormed(c) ==
  \/ obj[c].mem = NULL /\ obj[c].cap = 0 /\ obj[c].n = 0
  \/ /\ Allocated(heap, obj[c].mem)
     /\ Len(heap[obj[c].mem].slots) = obj[c].cap
     /\ \A k \in 1..obj[c].cap : (heap[obj[c].mem].slots[k] # Uninit) <=> (k <= obj[c].n)

\* ---------------------------------------------------------------- the programs
\* any calls on two containers
Next ==
  \/ \E c \in Conts : DefaultCtor(c) /\ UNCHANGED track
  \/ \E c \in Conts, src \in Conts : CopyCtor(c, src) /\ UNCHANGED track
  \/ \E c \in Conts, src \in Conts : MoveCtor(c, src) /\ UNCHANGED track
  \/ \E c \in Conts, src \in Conts : CopyAssign(c, src) /\ UNCHANGED track
  \/ \E c \in Conts, src \in Conts : MoveAssign(c, src) /\ UNCHANGED track
  \/ \E c \in Conts : Dtor(c) /\ UNCHANGED track
  \/ \E c \in Conts, i \in Idx : At(c, i) /\ UNCHANGED track
  \/ \E c \in Conts, i \in Idx, v \in Vals : Insert(c, i, v, MaxLen) /\ UNCHANGED track
  \/ \E c \in Conts, v \in Vals : AppendOp(c, v, MaxLen) /\ UNCHANGED track
  \/ \E c \in Conts, i \in Idx : Delete(c, i) /\ UNCHANGED track

Spec == Init /\ [][Next]_vars

\* any calls on one container, which may grow past its initial capacity
NextSolo ==
  \/ DefaultCtor("A") /\ UNCHANGED track
  \/ CopyAssign("A", "A") /\ UNCHANGED track
  \/ MoveAssign("A", "A") /\ UNCHANGED track
  \/ Dtor("A") /\ UNCHANGED track
  \/ \E i \in IdxSolo : At("A", i) /\ UNCHANGED track
  \/ \E i \in IdxSolo, v \in Vals : Insert("A", i, v, MaxSolo) /\ UNCHANGED track
  \/ \E v \in Vals : AppendOp("A", v, MaxSolo) /\ UNCHANGED track
  \/ \E i \in IdxSolo : Delete("A", i) /\ UNCHANGED track

SpecSolo == Init /\ [][NextSolo]_vars

\* one container from its construction on, while it is alive
NextCalls ==
  \/ DefaultCtor("A") /\ UNCHANGED track
  \/ \E i \in IdxSolo : At("A", i) /\ UNCHANGED track
  \/ \E i \in IdxSolo, v \in Vals : Insert("A", i, v, MaxSolo) /\ UNCHANGED track
  \/ \E v \in Vals : AppendOp("A", v, MaxSolo) /\ UNCHANGED track
  \/ \E i \in IdxSolo : Delete("A", i) /\ UNCHANGED track
  \/ CopyAssign("A", "A") /\ track' = [track EXCEPT !.selfed = TRUE]
  \/ MoveAssign("A", "A") /\ track' = [track EXCEPT !.selfed = TRUE]

SpecCalls == Init /\ [][NextCalls]_vars

\* any calls on one container of a T that is not trivially copyable
InitNontrivial == Init /\ ~trivial

SpecNontrivial == InitNontrivial /\ [][NextSolo]_vars

\* a container that is constructed empty and then only appended to, every
\* Append returning; track.vals records what was appended
NextAppend ==
  \/ DefaultCtor("A") /\ UNCHANGED track
  \/ \E v \in Vals : /\ AppendOp("A", v, MaxSolo)
                     /\ last' = "ok"
                     /\ track' = [track EXCEPT !.vals["A"] = Append(@, v)]
  \/ \E i \in IdxSolo : At("A", i) /\ UNCHANGED track

SpecAppend == Init /\ [][NextAppend]_vars

\* a container A that is inserted into, and that may be moved from (into B)
\* right after its construction, so that it starts again from capacity 0;
\* track.vals["A"] is the sequence that was inserted
NextGrow ==
  \/ DefaultCtor("A") /\ UNCHANGED track
  \/ obj["A"].n = 0 /\ MoveCtor("B", "A") /\ UNCHANGED track
  \/ \E i \in IdxSolo, v \in Vals :
       /\ Insert("A", i, v, MaxSolo)
       /\ track' = IF last' = "ok" THEN [track EXCEPT !.vals["A"] = InsertAt(@, i, v)]
                   ELSE track
  \/ \E v \in Vals :
       /\ AppendOp("A", v, MaxSolo)
       /\ track' = IF last' = "ok" THEN [track EXCEPT !.vals["A"] = Append(@, v)]
                   ELSE track
  \/ \E i \in IdxSolo : At("A", i) /\ UNCHANGED track

SpecGrow == Init /\ [][NextGrow]_vars

\* a container that is appended to, and inserted into with references to its
\* own elements as the value
NextRef ==
  \/ DefaultCtor("A") /\ UNCHANGED track
  \/ \E v \in Vals : AppendOp("A", v, MaxSolo) /\ UNCHANGED track
  \/ \E i \in IdxSolo, j \in IdxSolo : InsertRef("A", i, j, MaxSolo) /\ UNCHANGED track
  \/ \E j \in IdxSolo : AppendRef("A", j, MaxSolo) /\ UNCHANGED track
  \/ \E i \in IdxSolo : At("A", i) /\ UNCHANGED track

SpecRef == Init /\ [][NextRef]_vars

\* any calls until one container is copy-constructed from an other whose
\* buffer and fields agree, and from there on only Insert, Append, Delete, At
\* and copy assignment
NextCopy ==
  \/ ~track.copied /\ Next
  \/ \E c \in Conts, src \in Conts : /\ ~track.copied
                                     /\ WellFormed(src)
                                     /\ CopyCtor(c, src)
                                     /\ last' = "ok"
                                     /\ track' = [track EXCEPT !.copied = TRUE]
  \/ \E c \in Conts, src \in Conts : track.copied /\ CopyAssign(c, src) /\ UNCHANGED track
  \/ \E c \in Conts, i \in Idx : track.copied /\ At(c, i) /\ UNCHANGED track
  \/ \E c \in Conts, i \in Idx, v \in Vals :
       track.copied /\ Insert(c, i, v, MaxLen) /\ UNCHANGED track
  \/ \E c \in Conts, v \in Vals : track.copied /\ AppendOp(c, v, MaxLen) /\ UNCHANGED track
  \/ \E c \in Conts, i \in Idx : track.copied /\ Delete(c, i) /\ UNCHANGED track

SpecCopy == Init /\ [][NextCopy]_vars

\* ---------------------------------------------------------------- C1
\* C1: in every state reachable by construction, Append, Insert, Delete and
\* the assignments on the containers, the calls that throw included, every
\* container has Size() <= Capacity().
C1_SizeWithinCapacity ==
  \A c \in Conts : obj[c].live => obj[c].n <= obj[c].cap

\* a full container, in a run where the allocator has failed
C1_FullAfterFailure ==
  \E c \in Conts : obj[c].live /\ obj[c].n > 0 /\ obj[c].n = obj[c].cap /\ fails > 0

\* ---------------------------------------------------------------- C2
\* C2: after every call, whether it returned or threw, the buffer of every
\* live container is a currently allocated block of exactly capacity slots,
\* slots [0, length) hold live elements and slots [length, capacity) hold none.
C2_BufferMatchesFields ==
  \A c \in Conts : obj[c].live => WellFormed(c)

\* ---------------------------------------------------------------- C3
\* C3: an Insert or Append on a full container (length = capacity) that
\* fails because the allocator has no memory leaves the container as it was:
\* length, capacity, buffer and elements.
C3_FailedGrowthChangesNothing ==
  [][\A i \in IdxSolo, v \in Vals :
       (obj["A"].n = obj["A"].cap /\ last' = "nomem" /\ Insert("A", i, v, MaxSolo))
         => obj'["A"] = obj["A"] /\ heap' = heap]_vars

\* ---------------------------------------------------------------- C4
\* C4: every buffer obtained from the allocator is freed exactly once: no
\* address that is not allocated is handed to std::free, and once every
\* container is destroyed no block is left allocated.
C4_FreedExactlyOnce ==
  /\ ~freeErr
  /\ (\A c \in Conts : ~obj[c].live) => (\A a \in Addrs : ~heap[a].alloc)

\* ---------------------------------------------------------------- C5
\* C5: in every reachable state no two live containers hold the same buffer.
C5_NoSharedBuffer ==
  \A c, d \in Conts :
    c # d /\ obj[c].live /\ obj[d].live /\ obj[c].mem # NULL => obj[c].mem # obj[d].mem

\* ---------------------------------------------------------------- C6
\* C6: for every container and every i <= length, an Insert(i, v) that
\* returns leaves a container of length + 1 with v at i, the elements of
\* [0, i) where they were and those of [i, length) one index up.
C6_InsertPutsValueAtIndex ==
  [][\A i \in IdxSolo, v \in Vals :
       (i <= obj["A"].n /\ last' = "ok" /\ Insert("A", i, v, MaxSolo))
         => Holds(heap', obj'["A"], InsertAt(Elems(heap, obj["A"]), i, v))]_vars

\* ---------------------------------------------------------------- C7
\* C7: for every container and every i < length, Delete(i) removes exactly
\* the element at i: the length drops by one, the elements of [0, i) stay
\* and those of [i+1, length) come one index down.
C7_DeleteRemovesOneElement ==
  [][\A i \in IdxSolo :
       (i < obj["A"].n /\ Delete("A", i))
         => Holds(heap', obj'["A"], RemoveAt(Elems(heap, obj["A"]), i))]_vars

\* ---------------------------------------------------------------- C8
\* C8: a container that was constructed empty and has seen N Append calls,
\* all of which returned, has Size() = N and holds the k-th appended value at
\* index k, however many times it has grown.  (Append(v) is Insert(n, v) by
\* definition, here as in the code.)
C8_AppendsReadBack ==
  obj["A"].live => Holds(heap, obj["A"], track.vals["A"])

\* a container that has grown past its initial capacity by appends
C8_GrownByAppends ==
  obj["A"].live /\ obj["A"].n > InitCap /\ Len(track.vals["A"]) = obj["A"].n

\* ---------------------------------------------------------------- C9
\* the program's state is what it was
Untouched == obj' = obj /\ heap' = heap /\ ub' = ub /\ freeErr' = freeErr

\* C9: At(i) with i >= length, Insert(i, v) with i > length and Delete(i)
\* with i >= length each throw std::out_of_range and leave the container as
\* it was: length, capacity, buffer and elements.
C9_OutOfRangeChangesNothing ==
  [][\A i \in IdxSolo :
       /\ (i >= obj["A"].n /\ At("A", i)) => (last' = "oor" /\ Untouched)
       /\ (i >= obj["A"].n /\ Delete("A", i)) => (last' = "oor" /\ Untouched)
       /\ \A v \in Vals :
            (i > obj["A"].n /\ Insert("A", i, v, MaxSolo)) => (last' = "oor" /\ Untouched)]_vars

\* a container that has grown and holds elements, after a call that threw
\* std::out_of_range
C9_ThrewOnGrownContainer ==
  obj["A"].live /\ obj["A"].n > InitCap /\ last = "oor"

\* ---------------------------------------------------------------- C10
\* the step is a call of Insert, Append, Delete or copy assignment on c
CallOn(c) ==
  \/ \E i \in Idx, v \in Vals : Insert(c, i, v, MaxLen)
  \/ \E i \in Idx : Delete(c, i)
  \/ \E src \in Conts \ {c} : CopyAssign(c, src)

\* C10: copy-constructing B from A gives B the length, the capacity and the
\* elements of A in a buffer of its own, and from there on no Insert, Delete
\* or assignment on one of the two changes the length, the capacity or the
\* elements of the other.
C10_CopyIsIndependent ==
  [][/\ (~track.copied /\ track'.copied) =>
          \E c, src \in Conts :
            /\ CopyCtor(c, src)
            /\ SameContainer(heap, obj[src], heap', obj'[c])
            /\ obj'[c].mem # obj'[src].mem
     /\ (track.copied /\ track'.copied) =>
          \A c, d \in Conts :
            (c # d /\ CallOn(c)) => SameContainer(heap, obj[d], heap', obj'[d])]_vars

\* ---------------------------------------------------------------- C11
\* C11: move-constructing c from src gives c the buffer, the length, the
\* capacity and the elements src had, constructs and destroys no element (the
\* heap is untouched), and leaves src with length 0, capacity 0 and no buffer.
C11_MoveCtorTransfers ==
  [][\A c, src \in Conts :
       MoveCtor(c, src)
         => /\ obj'[c].mem = obj[src].mem
            /\ SameContainer(heap, obj[src], heap', obj'[c])
            /\ heap' = heap /\ ub' = ub /\ freeErr' = freeErr
            /\ obj'[src].live
            /\ obj'[src].n = 0 /\ obj'[src].cap = 0 /\ obj'[src].mem = NULL]_vars

\* a container with elements in a buffer of the initial capacity, next to a
\* container that has been moved from
C11_MovedPopulated ==
  \E c, src \in Conts :
    /\ obj[src] = MovedFrom
    /\ obj[c].live /\ obj[c].n = MaxLen /\ obj[c].cap = InitCap
    /\ Holds(heap, obj[c], Elems(heap, obj[c]))

\* ---------------------------------------------------------------- C12
\* C12: assigning a container to itself, by copy or by move, leaves it as it
\* was: length, capacity, buffer and elements; no element is destroyed and no
\* buffer is freed.
C12_SelfAssignChangesNothing ==
  [][(CopyAssign("A", "A") \/ MoveAssign("A", "A")) => Untouched]_vars

\* a container that has grown and holds its elements, after a self-assignment
C12_SelfAssignedGrown ==
  /\ track.selfed
  /\ obj["A"].live /\ obj["A"].n > InitCap
  /\ Holds(heap, obj["A"], Elems(heap, obj["A"]))

\* ---------------------------------------------------------------- C13
\* the slots of o's block from index o.n on hold no element
RestIsEmpty(h, o) ==
  Allocated(h, o.mem) =>
    \A k \in 1..Len(h[o.mem].slots) : k > o.n => h[o.mem].slots[k] = Uninit

\* C13: a copy assignment c = src (c # src) that returns, both containers
\* having a buffer, leaves src as it was and c with the length and the elements of src;
\* if src's length exceeded c's capacity, c's capacity is now src's, and
\* otherwise c keeps its buffer and its capacity; the elements c held before
\* are all destroyed (none of them is left behind the new length), and
\* nothing is freed twice.
C13_CopyAssignCopies ==
  [][\A c, src \in Conts :
       (c # src /\ obj[c].mem # NULL /\ obj[src].mem # NULL /\ last' = "ok"
          /\ CopyAssign(c, src))
         => /\ obj'[src] = obj[src]
            /\ Elems(heap', obj'[src]) = Elems(heap, obj[src])
            /\ obj'[c].n = obj[src].n
            /\ Elems(heap', obj'[c]) = Elems(heap, obj[src])
            /\ RestIsEmpty(heap', obj'[c])
            /\ ~freeErr'
            /\ IF obj[src].n > obj[c].cap
               THEN obj'[c].cap = obj[src].cap
               ELSE obj'[c].cap = obj[c].cap /\ obj'[c].mem = obj[c].mem]_vars

\* ---------------------------------------------------------------- C14
\* C14: a move assignment c = move(src) (c # src), on a c that has a buffer,
\* destroys the elements c held, each of them a live element, frees c's
\* buffer once (it is an allocated block before and none after), gives c the
\* buffer, the length, the capacity and the elements src had, and leaves src
\* with length 0, capacity 0 and no buffer.
C14_MoveAssignTransfers ==
  [][\A c, src \in Conts :
       (c # src /\ obj[c].mem # NULL /\ MoveAssign(c, src))
         => /\ ~ub' /\ ~freeErr'
            /\ Allocated(heap, obj[c].mem) /\ ~Allocated(heap', obj[c].mem)
            /\ obj'[c].mem = obj[src].mem
            /\ SameContainer(heap, obj[src], heap', obj'[c])
            /\ obj'[src] = MovedFrom]_vars

\* ---------------------------------------------------------------- C15
\* the number of slots of o's buffer
BufferSize(h, o) == IF Allocated(h, o.mem) THEN Len(h[o.mem].slots) ELSE 0

\* C15: Insert and Append change the capacity only when length = capacity at
\* the call, and then to max(1, 2 * capacity), so a moved-from container
\* grows from 0 to 1; a call that returns on a full container does change it,
\* and the buffer is not reallocated otherwise.  A fresh container therefore
\* has capacity InitCap up to InitCap elements and 2 * InitCap with
\* InitCap + 1 (one reallocation), and what was inserted is read back, in the
\* runs whose calls of the allocator all succeed.
C15_GrowthPolicy ==
  /\ [](fails = 0 /\ obj["A"].live =>
          /\ Holds(heap, obj["A"], track.vals["A"])
          /\ BufferSize(heap, obj["A"]) = obj["A"].cap
          /\ ~obj["B"].live =>
               obj["A"].cap = IF obj["A"].n <= InitCap THEN InitCap ELSE 2 * InitCap)
  /\ [][\A i \in IdxSolo, v \in Vals :
          Insert("A", i, v, MaxSolo) =>
            LET full   == i <= obj["A"].n /\ obj["A"].n = obj["A"].cap
                double == IF obj["A"].cap = 0 THEN 1 ELSE 2 * obj["A"].cap
            IN  /\ obj'["A"].cap # obj["A"].cap => full /\ obj'["A"].cap = double
                /\ full /\ last' = "ok" => obj'["A"].cap = double
                /\ (obj'["A"].mem # obj["A"].mem
                      \/ BufferSize(heap', obj'["A"]) # BufferSize(heap, obj["A"]))
                     => full]_vars

\* a fresh container that holds one element more than its initial capacity
C15_OnePastInitialCapacity ==
  /\ fails = 0 /\ ~obj["B"].live
  /\ obj["A"].live /\ obj["A"].n = InitCap + 1 /\ obj["A"].cap = 2 * InitCap

\* ---------------------------------------------------------------- C16
\* C16: Delete changes neither the capacity nor the buffer (its address and
\* its size), and no call of Insert, Append or Delete, whether it returns or
\* throws, makes the capacity smaller.
C16_DeleteKeepsCapacity ==
  [][\A i \in IdxSolo :
       /\ ~ /\ \/ obj'["A"].cap # obj["A"].cap
               \/ obj'["A"].mem # obj["A"].mem
               \/ BufferSize(heap', obj'["A"]) # BufferSize(heap, obj["A"])
            /\ Delete("A", i)
       /\ \A v \in Vals :
            ~(obj'["A"].cap < obj["A"].cap /\ Insert("A", i, v, MaxSolo))]_vars

\* a container that has grown and has then been emptied again by Delete
C16_EmptiedAfterGrowth ==
  /\ fails = 0
  /\ obj["A"].live /\ obj["A"].n = 0 /\ obj["A"].cap = 2 * InitCap

\* ---------------------------------------------------------------- C17
\* slot a[i] is in a block and holds a live object / holds none
LiveSlot(h, a, i)  == Valid(h, a, i) /\ h[a].slots[i + 1] # Uninit
EmptySlot(h, a, i) == Valid(h, a, i) /\ h[a].slots[i + 1] = Uninit

\* every step of the loop of makeRoomAt_simple_nontrivial, run from elemI down
\* to i in memory m, constructs into an empty slot from a live one (which it
\* then destroys)
RECURSIVE ShiftRightOk(_, _, _, _)
ShiftRightOk(m, mem, elemI, i) ==
  IF elemI < i THEN TRUE
  ELSE /\ EmptySlot(m.blk, mem, elemI + 1)
       /\ LiveSlot(m.blk, mem, elemI)
       /\ ShiftRightOk(Destroy(Construct(m, mem, elemI + 1, mem, elemI, Uninit), mem, elemI),
                       mem, elemI - 1, i)

\* the same for the loop of Delete, run from elemI up to n
RECURSIVE ShiftLeftOk(_, _, _, _)
ShiftLeftOk(m, mem, elemI, n) ==
  IF elemI >= n THEN TRUE
  ELSE /\ EmptySlot(m.blk, mem, elemI - 1)
       /\ LiveSlot(m.blk, mem, elemI)
       /\ ShiftLeftOk(Destroy(Construct(m, mem, elemI - 1, mem, elemI, Uninit), mem, elemI),
                      mem, elemI + 1, n)

\* C17: for a T that is not trivially copyable, every step of the shift of
\* Insert (from the highest index down) and of Delete (from the lowest index
\* up) move-constructs into a slot that holds no object at that moment from a
\* slot that holds a live one, and destroys only live objects.
C17_ShiftStepsAreSound ==
  [][\A i \in IdxSolo :
       /\ \A v \in Vals :
            (i <= obj["A"].n /\ obj["A"].n < obj["A"].cap /\ obj["A"].n > 0
               /\ Insert("A", i, v, MaxSolo))
              => ShiftRightOk(Memory(heap), obj["A"].mem, obj["A"].n - 1, i)
       /\ (i < obj["A"].n /\ Delete("A", i))
            => /\ LiveSlot(heap, obj["A"].mem, i)
               /\ ShiftLeftOk(Destroy(Memory(heap), obj["A"].mem, i), obj["A"].mem,
                              i + 1, obj["A"].n)]_vars

\* ---------------------------------------------------------------- C18
\* the growing branch of makeRoomAt_nontrivial(i) on o in memory m, std::malloc
\* having returned r: the new block is another one than the old; every old
\* element is live when it is moved from; after the two loops the old block is
\* as it was, the new one holds the old element k at k (k < i) or k + 1
\* (k >= i) and nothing at i; and destructAndFree then finds the old block
\* allocated and frees it
GrowOk(m, o, i, r) ==
  LET m1 == Malloc(m, r, newCap(o.cap))
      m2 == MoveOut(m1, r, o.mem, 0, i, 0, Uninit)
      m3 == MoveOut(m2, r, o.mem, i, o.n, 1, Uninit)
      m4 == destructAndFree(m3, o.mem, o.mem, o.n)
  IN  /\ r # o.mem
      /\ \A k \in 0..(o.n - 1) :
           /\ LiveSlot(m.blk, o.mem, k)
           /\ LiveSlot(m3.blk, r, IF k < i THEN k ELSE k + 1)
           /\ m3.blk[r].slots[(IF k < i THEN k ELSE k + 1) + 1] = m.blk[o.mem].slots[k + 1]
      /\ EmptySlot(m3.blk, r, i)
      /\ o.mem # NULL => /\ Allocated(m3.blk, o.mem)
                         /\ m3.blk[o.mem] = m.blk[o.mem]
                         /\ ~Allocated(m4.blk, o.mem)
      /\ ~m4.ub /\ ~m4.ferr

\* C18: when Insert has to grow a container that has a buffer, or no buffer
\* and no element, T not trivially copyable, the new buffer is
\* allocated before any old element is moved from or destroyed, each old
\* element is move-constructed once into its final slot of the new buffer
\* (k for k < index, k + 1 otherwise), slot index of the new buffer is left
\* without an object for the inserted value, and only then are the old
\* elements destroyed and the old buffer freed.
C18_FusedGrowthIsSound ==
  [][\A c \in Conts, i \in Idx, v \in Vals :
       (~trivial /\ i <= obj[c].n /\ obj[c].n >= obj[c].cap /\ last' = "ok"
          /\ (obj[c].mem # NULL \/ obj[c].n = 0)
          /\ Insert(c, i, v, MaxLen))
         => GrowOk(Memory(heap), obj[c], i, obj'[c].mem)]_vars

\* ---------------------------------------------------------------- C19
\* C19: destroying a container (one that has a buffer, or neither a buffer
\* nor an element) destroys each of its elements, every one a live object
\* when its turn comes in the loop from the highest index down, and then
\* frees its buffer, an allocated block until then; destroying a moved-from
\* container destroys nothing and frees nothing.
C19_DtorDestroysOnceAndFrees ==
  [][\A c \in Conts :
       ((obj[c].mem # NULL \/ obj[c].n = 0) /\ Dtor(c))
         => /\ \A k \in 0..(obj[c].n - 1) : LiveSlot(heap, obj[c].mem, k)
            /\ ~ub' /\ ~freeErr'
            /\ obj[c].mem # NULL =>
                 Allocated(heap, obj[c].mem) /\ ~Allocated(heap', obj[c].mem)
            /\ obj[c] = MovedFrom => heap' = heap]_vars

\* ---------------------------------------------------------------- C20
\* C20: when the value passed to Insert or Append is a reference to element j
\* of the same container, the element stored at the insertion index i is the
\* value element j had before the call, for every i <= length and j < length,
\* and it is not read from a slot that holds no live object any more.
C20_InsertOfOwnElement ==
  [][\A i \in IdxSolo, j \in IdxSolo :
       (j < obj["A"].n /\ i <= obj["A"].n /\ last' = "ok" /\ LiveSlot(heap, obj["A"].mem, j)
          /\ InsertRef("A", i, j, MaxSolo))
         => /\ ~ub'
            /\ LiveSlot(heap', obj'["A"].mem, i)
            /\ heap'[obj'["A"].mem].slots[i + 1] = heap[obj["A"].mem].slots[j + 1]]_vars

====
